---------------------------- MODULE Spec2Model ----------------------------
(***************************************************************************)
(* Model of the Govee BLE light protocol engine (GoveeAPI, GoveeUtils).    *)
(*                                                                         *)
(* Scheduling is asyncio's: a coroutine runs without interruption until it *)
(* suspends on I/O (establish_connection, start_notify, write_gatt_char)   *)
(* or on a lock that is held; acquiring a free asyncio.Lock does not       *)
(* suspend.  One action is one such uninterrupted run.                     *)
(***************************************************************************)
EXTENDS Integers, Sequences, FiniteSets, TLC

(***************************************************************************)
(* Bounds of the model.                                                    *)
(***************************************************************************)
MaxOps == 2      \* enqueueing API calls (set_*, request_*) in a behaviour
MaxFaults == 1   \* transport faults injected (connect, subscribe, write, link drop)
MaxRecv == 1     \* notifications delivered
MaxPayloadLen == 18  \* longest payload handed to generateFrame

(***************************************************************************)
(* Protocol constants (api_utils.py).                                      *)
(***************************************************************************)
COMMAND == 51
REQUEST == 170
POWER == 1
BRIGHTNESS == 4
COLOR == 5
SEGMENT == 165
SEGMENTS == 21
SINGLE == 2
LEGACY == 13
DefaultRepeat == 3
FrameDataLen == 19
MaxBrightness == 255

Tasks == {"t1", "t2"}
NoTask == "none"

\* an optional value: None, or a value v; Python's None == v is False
None == <<>>
Some(v) == <<v>>
\* GoveeAPI._client: 0 is None, n > 0 the n-th client establish_connection returned
NoClient == 0

Min(a, b) == IF a < b THEN a ELSE b
Max(a, b) == IF a > b THEN a ELSE b

(***************************************************************************)
(* Bytes and the XOR checksum.                                             *)
(***************************************************************************)
RECURSIVE XorBits(_, _, _)
XorBits(a, b, n) ==
    IF n = 0 THEN 0
    ELSE ((a + b) % 2) + 2 * XorBits(a \div 2, b \div 2, n - 1)

Xor(a, b) == XorBits(a, b, 8)

RECURSIVE XorFold(_, _)
XorFold(frame, acc) ==
    IF frame = <<>> THEN acc ELSE XorFold(Tail(frame), Xor(acc, Head(frame)))

\* GoveeUtils.generateChecksum: XOR of all bytes, masked to 8 bits
generateChecksum(frame) == XorFold(frame, 0) % 256

Zeros(n) == [i \in 1..Max(n, 0) |-> 0]

\* round(value) clamped to 0..255, applied to each element of a list payload
ClampByte(value) == Max(0, Min(255, value))

\* GoveeUtils.generateFrame: head, cmd & 0xFF, payload, zero padding to 19
\* bytes (a negative pad count yields no padding), checksum
generateFrame(packet) ==
    LET payload_bytes == [i \in 1..Len(packet.payload) |-> ClampByte(packet.payload[i])]
        frame == <<packet.head, packet.cmd % 256>> \o payload_bytes
        padded == frame \o Zeros(FrameDataLen - Len(frame))
    IN  Append(padded, generateChecksum(padded))

\* faulty variant: the received checksum byte is included in the XOR
verifyChecksumWholeFrame(frame) == frame[Len(frame)] = generateChecksum(frame)
\* GoveeUtils.verifyChecksum: last byte against the XOR of the others
verifyChecksum(frame) ==
    frame[Len(frame)] = generateChecksum(SubSeq(frame, 1, Len(frame) - 1))

(***************************************************************************)
(* Brightness scaling.  _scale_value followed by round(): Python's round   *)
(* is round-half-to-even; on every integer input 0..255 and the four range *)
(* pairs used, the float result equals this exact computation.             *)
(***************************************************************************)
\* faulty variant: the quotient is truncated instead of rounded
RoundDown(num, den) == num \div den
RoundHalfEven(num, den) ==
    LET q == num \div den
        r == num % den
    IN  IF 2 * r > den \/ (2 * r = den /\ q % 2 = 1) THEN q + 1 ELSE q

\* round(_scale_value(value, in_min, in_max, out_min, out_max))
scale_value(value, in_min, in_max, out_min, out_max) ==
    IF in_max = in_min THEN out_min
    ELSE LET v == Max(Min(value, in_max), in_min)
         IN  out_min + RoundHalfEven((v - in_min) * (out_max - out_min), in_max - in_min)

\* faulty variant: the native range is taken to be the host range
DeviceMaxIsHostMax(seg) == MaxBrightness
DeviceMax(seg) == IF seg THEN 100 ELSE 254


(***************************************************************************)
(* State.                                                                  *)
(***************************************************************************)
VARIABLES
    state, brightness, color,      \* GoveeAPI.state / brightness / color (None = unknown)
    segmented,                     \* GoveeAPI._segmented, fixed at construction
    packet_buffer,                 \* GoveeAPI._packet_buffer
    client, is_connected,          \* GoveeAPI._client and its is_connected
    subscribed,                    \* start_notify has registered _handleReceive on client
    send_lock, send_waiters,       \* GoveeAPI._send_lock and its FIFO of waiters
    connect_lock, connect_waiters, \* GoveeAPI._connect_lock and its FIFO of waiters
    buffer_lock,                   \* GoveeAPI._buffer_lock
    pc, op,                        \* per task: where it is suspended, and in which call
    packets, idx,                  \* per task: sendPacketBuffer's locals (batch, loop position)
    wclient,                       \* per task: the client its pending write was issued on
    result,                        \* per task: the exception its last call raised, if any
    written, wire_fid,             \* instrumentation: the copies write_gatt_char has sent,
                                   \*   and the drain (fid) the latest write belongs to
    nextSeq, nflush, fid, attempts,\* instrumentation: copy numbering, drains, attempts per call
    callbacks, cb_seen,            \* instrumentation: update_callback calls, state it last saw
    rejected,                      \* instrumentation: notifications _handleReceive has
                                   \*   rejected for their checksum
    prevColorCall,                 \* instrumentation: arguments of the last setColorBuffered
    lastPowerCall,                 \* instrumentation: argument of the latest setStateBuffered
                                   \*   since the last notification
    wire_power,                    \* instrumentation: value of the latest POWER command written
    rolled,                        \* instrumentation: at the latest rollback, the number of
                                   \*   copies enqueued while that flush was in progress
    tracing,                       \* instrumentation: whether copies and writes are numbered
    nops, faults, nrecv,           \* counters the bounds cap
    arg, ret                       \* a call of a codec or scaling function: its argument
                                   \*   and, once it has returned, what it returned

devvars == <<state, brightness, color>>
wirevars == <<written, wire_fid, wire_power>>
connvars == <<client, is_connected, subscribed>>
lockvars == <<send_lock, send_waiters, connect_lock, connect_waiters, buffer_lock>>
taskvars == <<pc, op, packets, idx, wclient, result, fid, attempts>>
cbvars == <<callbacks, cb_seen, rejected>>
purevars == <<arg, ret>>
vars == <<state, brightness, color, segmented, packet_buffer, client, is_connected,
          subscribed, send_lock, send_waiters, connect_lock, connect_waiters,
          buffer_lock, pc, op, packets, idx, wclient, result, written, wire_fid, nextSeq, nflush, fid,
          attempts, callbacks, cb_seen, rejected, prevColorCall, lastPowerCall, wire_power,
          rolled, tracing, nops, faults,
          nrecv,
          arg, ret>>

\* inputs the callers draw from
Brightnesses == {Some(128)}
Colors == {<<255, 0, 0>>}

\* GoveeAPI.__init__
Constructed(numbered) ==
    /\ tracing = numbered
    /\ state = None /\ brightness = None /\ color = None
    /\ segmented \in BOOLEAN
    /\ packet_buffer = <<>>
    /\ client = NoClient /\ is_connected = FALSE /\ subscribed = FALSE
    /\ send_lock = NoTask /\ send_waiters = <<>>
    /\ connect_lock = NoTask /\ connect_waiters = <<>>
    /\ buffer_lock = NoTask
    /\ pc = [t \in Tasks |-> "idle"]
    /\ op = [t \in Tasks |-> "none"]
    /\ packets = [t \in Tasks |-> <<>>]
    /\ idx = [t \in Tasks |-> 0]
    /\ wclient = [t \in Tasks |-> NoClient]
    /\ result = [t \in Tasks |-> "none"]
    /\ written = {} /\ wire_fid = 0
    /\ nextSeq = 1 /\ nflush = 0
    /\ fid = [t \in Tasks |-> 0]
    /\ attempts = [t \in Tasks |-> 0]
    /\ callbacks = 0 /\ cb_seen = <<None, None, None>> /\ rejected = 0
    /\ prevColorCall = None /\ lastPowerCall = None /\ wire_power = None
    /\ rolled = 0
    /\ nops = 0 /\ faults = 0 /\ nrecv = 0

InitWith(numbered) == Constructed(numbered) /\ arg = None /\ ret = None

\* the state after construction, with the instrumentation of the transmit
\* path (copy numbers, written copies, drain numbers) on or off
Init == InitWith(TRUE)
InitPlain == InitWith(FALSE)

(***************************************************************************)
(* Transmit buffer: _preparePacket and the buffered setters and requests.  *)
(* A buffer entry is the packet plus its copy number seq and the number    *)
(* eid of the _preparePacket call that appended it (instrumentation).      *)
(***************************************************************************)
LedPacket(head, cmd, payload) == [head |-> head, cmd |-> cmd, payload |-> payload]

RECURSIVE appendCopies(_, _, _, _, _)
appendCopies(buf, packet, eid, seq, n) ==
    IF n <= 0 THEN [buf |-> buf, seq |-> seq]
    ELSE appendCopies(Append(buf, [pkt |-> packet, seq |-> seq, eid |-> eid]),
                      packet, eid, seq + 1, n - 1)

\* GoveeAPI._preparePacket, on the buffer b = [buf, seq]
preparePacket(b, cmd, payload, request, repeat) ==
    LET head == IF request THEN REQUEST ELSE COMMAND
    IN  appendCopies(b.buf, LedPacket(head, cmd, payload), b.seq, b.seq, repeat)

Buffer == [buf |-> packet_buffer, seq |-> nextSeq]

requestState(b) == preparePacket(b, POWER, <<>>, TRUE, DefaultRepeat)
requestBrightness(b) == preparePacket(b, BRIGHTNESS, <<>>, TRUE, DefaultRepeat)
\* faulty variant: the color is requested with the legacy command
requestColorLegacy(b) == preparePacket(b, COLOR, <<>>, TRUE, DefaultRepeat)
requestColor(b) ==
    IF segmented THEN preparePacket(b, SEGMENT, <<1>>, TRUE, DefaultRepeat)
    ELSE preparePacket(b, COLOR, <<>>, TRUE, DefaultRepeat)

\* the idempotence gates of the setters
StateGate(s) == state = Some(s)
BrightnessGate(b, force) == ~force /\ brightness = Some(b)
\* faulty variant: the color gate ignores the force flag
ColorGateIgnoresForce(rgb, force) == color = Some(rgb)
ColorGate(rgb, force) == ~force /\ color = Some(rgb)

setState(b, s) ==
    IF StateGate(s) THEN b
    ELSE requestState(preparePacket(b, POWER, <<IF s THEN 1 ELSE 0>>, FALSE, DefaultRepeat))

setBrightness(b, value, force) ==
    IF value = None THEN b
    ELSE LET v == Max(0, Min(255, value[1]))
             device_max == DeviceMax(segmented)
             payload == Max(0, Min(device_max, scale_value(v, 0, 255, 0, device_max)))
         IN  IF BrightnessGate(v, force) THEN b
             ELSE requestBrightness(preparePacket(b, BRIGHTNESS, <<payload>>, FALSE, DefaultRepeat))

setColor(b, rgb, force) ==
    IF ColorGate(rgb, force) THEN b
    ELSE LET b1 == IF segmented
                   THEN preparePacket(b, COLOR,
                            <<SEGMENTS, 1, rgb[1], rgb[2], rgb[3],
                              255, 255, 255, 255, 255, 255, 255>>, FALSE, DefaultRepeat)
                   ELSE b
             b2 == preparePacket(b1, COLOR, <<SINGLE, rgb[1], rgb[2], rgb[3]>>, FALSE, DefaultRepeat)
             b3 == preparePacket(b2, COLOR, <<LEGACY, rgb[1], rgb[2], rgb[3]>>, FALSE, DefaultRepeat)
         IN  requestColor(b3)

\* one enqueueing call: the buffer lock is free whenever a task runs, the
\* call takes and releases it around each append loop without suspending
Enqueue(b, call, power) ==
    /\ nops < MaxOps
    /\ buffer_lock = NoTask
    /\ nops' = nops + 1
    /\ packet_buffer' = b.buf
    /\ nextSeq' = IF tracing THEN b.seq ELSE nextSeq
    /\ prevColorCall' = call
    /\ lastPowerCall' = IF tracing THEN power ELSE lastPowerCall
    /\ UNCHANGED <<devvars, segmented, connvars, lockvars, taskvars, wirevars, nflush,
                   cbvars, rolled, tracing, purevars, faults, nrecv>>

requestStateBuffered == Enqueue(requestState(Buffer), prevColorCall, lastPowerCall)
requestBrightnessBuffered ==
    Enqueue(requestBrightness(Buffer), prevColorCall, lastPowerCall)
requestColorBuffered == Enqueue(requestColor(Buffer), prevColorCall, lastPowerCall)
setStateBuffered(s) == Enqueue(setState(Buffer, s), prevColorCall, Some(s))
setBrightnessBuffered(value, force) ==
    Enqueue(setBrightness(Buffer, value, force), prevColorCall, lastPowerCall)
setColorBuffered(rgb, force) ==
    Enqueue(setColor(Buffer, rgb, force), <<rgb, force>>, lastPowerCall)


(***************************************************************************)
(* Device state reconciler: _handleRequest and _handleReceive.             *)
(***************************************************************************)
\* responses and other notifications the device may push
Corrupt(frame) == [frame EXCEPT ![Len(frame)] = Xor(@, 1)]
NotifPackets ==
    { LedPacket(REQUEST, POWER, <<1>>),
      LedPacket(REQUEST, BRIGHTNESS, <<100>>),
      LedPacket(REQUEST, COLOR, <<SINGLE, 255, 0, 0>>),
      LedPacket(REQUEST, SEGMENT, <<SEGMENTS, 1, 0, 0, 255>>),
      LedPacket(REQUEST, 7, <<1>>),
      LedPacket(COMMAND, BRIGHTNESS, <<50>>) }
NotifFrames ==
    { generateFrame(p) : p \in NotifPackets }
        \cup { Corrupt(generateFrame(LedPacket(REQUEST, COLOR, <<SINGLE, 0, 255, 0>>))) }

\* what the link may deliver: these frames, and a power and a color
\* response with any one byte altered in transit (lowest or highest bit)
Altered(frame, i, mask) == [frame EXCEPT ![i] = Xor(@, mask)]
AlteredFrames ==
    LET sent == { generateFrame(LedPacket(REQUEST, POWER, <<1>>)),
                  generateFrame(LedPacket(REQUEST, COLOR, <<SINGLE, 255, 0, 0>>)) }
    IN  {Altered(f, i, mask) : f \in sent, i \in 1..(FrameDataLen + 1), mask \in {1, 128}}
RecvFrames == NotifFrames \cup AlteredFrames

\* verifyChecksum on each of these frames, evaluated once
Verified == [f \in RecvFrames |-> verifyChecksum(f)]

DeviceState == <<state, brightness, color>>

\* GoveeAPI._handleRequest: the DeviceState after a response (cmd, payload)
handleRequest(cmd, payload) ==
    CASE cmd = POWER -> <<Some(payload[1] = 1), brightness, color>>
      [] cmd = BRIGHTNESS ->
            LET reported == payload[1]
                scaled == scale_value(reported, 0, DeviceMax(segmented), 0, 255)
            IN  <<state, Some(Max(0, Min(255, scaled))), color>>
      [] cmd = COLOR -> <<state, brightness, Some(<<payload[2], payload[3], payload[4]>>)>>
      [] cmd = SEGMENT -> <<state, brightness, Some(<<payload[3], payload[4], payload[5]>>)>>
      [] OTHER -> DeviceState

\* faulty variant: the frame is decoded without verifying its checksum
handleReceiveUnverified(frame) ==
    LET dev == handleRequest(frame[2], SubSeq(frame, 3, Len(frame) - 1))
    IN  IF frame[1] = REQUEST
        THEN [dev |-> dev, cb |-> 1, seen |-> dev, raised |-> FALSE]
        ELSE [dev |-> DeviceState, cb |-> 0, seen |-> cb_seen, raised |-> FALSE]

\* faulty variant: the update callback runs before the state update
handleReceiveCallbackFirst(frame) ==
    IF ~Verified[frame]
    THEN [dev |-> DeviceState, cb |-> 0, seen |-> cb_seen, raised |-> TRUE]
    ELSE IF frame[1] = REQUEST
         THEN [dev |-> handleRequest(frame[2], SubSeq(frame, 3, Len(frame) - 1)),
               cb |-> 1, seen |-> DeviceState, raised |-> FALSE]
         ELSE [dev |-> DeviceState, cb |-> 0, seen |-> cb_seen, raised |-> FALSE]

\* GoveeAPI._handleReceive: the DeviceState it leaves, how many times it
\* invoked the update callback and the DeviceState the callback saw
handleReceive(frame) ==
    IF ~Verified[frame]
    THEN [dev |-> DeviceState, cb |-> 0, seen |-> cb_seen, raised |-> TRUE]
    ELSE LET head == frame[1]
             cmd == frame[2]
             payload == SubSeq(frame, 3, Len(frame) - 1)
         IN  IF head = REQUEST
             THEN LET dev == handleRequest(cmd, payload)
                  IN  [dev |-> dev, cb |-> 1, seen |-> dev, raised |-> FALSE]
             ELSE [dev |-> DeviceState, cb |-> 0, seen |-> cb_seen, raised |-> FALSE]

\* faulty variant: the link is never taken to be up
NeverConnected == FALSE
IsConnected == client # NoClient /\ is_connected

\* the transport delivers a notification to the subscribed handler
Notify(frame) ==
    /\ IsConnected /\ subscribed
    /\ nrecv < MaxRecv
    /\ nrecv' = nrecv + 1
    /\ LET r == handleReceive(frame)
       IN  /\ state' = r.dev[1] /\ brightness' = r.dev[2] /\ color' = r.dev[3]
           /\ callbacks' = callbacks + r.cb
           /\ cb_seen' = r.seen
           /\ rejected' = IF tracing /\ r.raised THEN rejected + 1 ELSE rejected
           /\ prevColorCall' = IF r.dev = DeviceState THEN prevColorCall ELSE None
    /\ lastPowerCall' = None
    /\ UNCHANGED <<segmented, packet_buffer, connvars, lockvars, taskvars, wirevars,
                   nextSeq, nflush, rolled, tracing, purevars, nops, faults>>

\* the link drops: the client reports is_connected = False from now on
LinkDrop ==
    /\ IsConnected
    /\ faults < MaxFaults
    /\ faults' = faults + 1
    /\ is_connected' = FALSE
    /\ UNCHANGED <<devvars, segmented, packet_buffer, client, subscribed, lockvars,
                   taskvars, wirevars, nextSeq, nflush, cbvars, prevColorCall, lastPowerCall,
                   rolled, tracing, purevars, nops, nrecv>>


(***************************************************************************)
(* Connection manager and flush: _ensureConnected, _connect,               *)
(* _transmitPacket, sendPacketBuffer.                                      *)
(***************************************************************************)
\* variables no step of a task's call touches
othervars == <<devvars, segmented, buffer_lock, nextSeq, cbvars, prevColorCall,
               lastPowerCall, tracing,
               purevars, nops, nrecv>>

\* faulty variant: the lock is not taken
NoLock == TRUE

\* an asyncio.Lock is acquired without suspending when it is free and
\* nobody waits for it; otherwise the caller joins the FIFO of waiters
SendLockAvailable == send_lock = NoTask /\ send_waiters = <<>>
ConnectLockAvailable == connect_lock = NoTask /\ connect_waiters = <<>>

\* faulty variants of the rollback: the batch overwrites, or follows, what
\* was enqueued during the flush
RollbackOverwrites(batch, buf) == batch
RollbackAppends(batch, buf) == buf \o batch

\* sendPacketBuffer's except branch: packets + self._packet_buffer
\* faulty variant: a failed flush drops the batch it had drained
RollbackDropsBatch(batch, buf) == buf
Rollback(batch, buf) == batch \o buf

\* faulty variant of the drain: the buffer is not emptied
KeptBuffer == packet_buffer

\* sendPacketBuffer's drain: self._packet_buffer = []
ClearedBuffer == <<>>

Outcome(p) == "none"

\* _ensureConnected has returned: a flush issues its first write, a direct
\* caller is done
Continue(t, kind) ==
    IF kind = "flush"
    THEN /\ pc' = [pc EXCEPT ![t] = "writing"]
         /\ wclient' = [wclient EXCEPT ![t] = client]
    ELSE /\ pc' = [pc EXCEPT ![t] = "idle"]
         /\ UNCHANGED wclient

\* _ensureConnected from its call to its first suspension
EnsureFresh(t, kind) ==
    IF IsConnected
    THEN /\ Continue(t, kind)
         /\ attempts' = [attempts EXCEPT ![t] = 0]
         /\ UNCHANGED <<connect_lock, connect_waiters>>
    ELSE IF ConnectLockAvailable
    THEN /\ pc' = [pc EXCEPT ![t] = "connecting"]
         /\ connect_lock' = t
         /\ attempts' = [attempts EXCEPT ![t] = 1]
         /\ UNCHANGED <<connect_waiters, wclient>>
    ELSE /\ pc' = [pc EXCEPT ![t] = "wait_connect"]
         /\ connect_waiters' = Append(connect_waiters, t)
         /\ attempts' = [attempts EXCEPT ![t] = 0]
         /\ UNCHANGED <<connect_lock, wclient>>

\* faulty variant: the exception leaves a flush with the send lock still held
RaiseHoldingSendLock(t, err) ==
    /\ pc' = [pc EXCEPT ![t] = "idle"]
    /\ result' = [result EXCEPT ![t] = err]
    /\ attempts' = [attempts EXCEPT ![t] = 0]
    /\ IF op[t] = "flush"
       THEN /\ buffer_lock = NoTask
            /\ packet_buffer' = (packets[t] \o packet_buffer)
            /\ packets' = [packets EXCEPT ![t] = <<>>]
            /\ idx' = [idx EXCEPT ![t] = 0]
            /\ fid' = [fid EXCEPT ![t] = 0]
            /\ wclient' = [wclient EXCEPT ![t] = NoClient]
            /\ rolled' = IF tracing THEN Len(packet_buffer) ELSE rolled
            /\ UNCHANGED send_lock
       ELSE UNCHANGED <<packet_buffer, send_lock, packets, idx, fid, wclient, rolled>>

\* an exception leaves the call: a flush puts its batch back and releases
\* the send lock on the way out
Raise(t, err) ==
    /\ pc' = [pc EXCEPT ![t] = "idle"]
    /\ result' = [result EXCEPT ![t] = err]
    /\ attempts' = [attempts EXCEPT ![t] = 0]
    /\ IF op[t] = "flush"
       THEN /\ buffer_lock = NoTask
            /\ packet_buffer' = Rollback(packets[t], packet_buffer)
            /\ send_lock' = NoTask
            /\ packets' = [packets EXCEPT ![t] = <<>>]
            /\ idx' = [idx EXCEPT ![t] = 0]
            /\ fid' = [fid EXCEPT ![t] = 0]
            /\ wclient' = [wclient EXCEPT ![t] = NoClient]
            /\ rolled' = IF tracing THEN Len(packet_buffer) ELSE rolled
       ELSE UNCHANGED <<packet_buffer, send_lock, packets, idx, fid, wclient, rolled>>

\* sendPacketBuffer once it holds the send lock, to its first suspension
EnterSend(t) ==
    IF packet_buffer = <<>>
    THEN /\ pc' = [pc EXCEPT ![t] = "idle"]
         /\ result' = [result EXCEPT ![t] = "none"]
         /\ attempts' = [attempts EXCEPT ![t] = 0]
         /\ UNCHANGED <<send_lock, packet_buffer, packets, nflush, fid, idx,
                        connect_lock, connect_waiters, wclient>>
    ELSE /\ buffer_lock = NoTask
         /\ send_lock' = t
         /\ packets' = [packets EXCEPT ![t] = packet_buffer]
         /\ packet_buffer' = ClearedBuffer
         /\ nflush' = IF tracing THEN nflush + 1 ELSE nflush
         /\ fid' = [fid EXCEPT ![t] = nflush']
         /\ idx' = [idx EXCEPT ![t] = 1]
         /\ EnsureFresh(t, "flush")
         /\ result' = [result EXCEPT ![t] = "none"]

\* a task calls sendPacketBuffer
sendPacketBuffer(t) ==
    /\ pc[t] = "idle"
    /\ op' = [op EXCEPT ![t] = "flush"]
    /\ IF SendLockAvailable
       THEN /\ EnterSend(t)
            /\ UNCHANGED send_waiters
       ELSE /\ pc' = [pc EXCEPT ![t] = "wait_send"]
            /\ send_waiters' = Append(send_waiters, t)
            /\ result' = [result EXCEPT ![t] = "none"]
            /\ attempts' = [attempts EXCEPT ![t] = 0]
            /\ UNCHANGED <<send_lock, packet_buffer, packets, nflush, fid, idx,
                           connect_lock, connect_waiters, wclient>>
    /\ UNCHANGED <<connvars, wirevars, faults, rolled, othervars>>

\* the first waiter for the send lock is woken once the lock is released
ResumeSend(t) ==
    /\ pc[t] = "wait_send"
    /\ send_lock = NoTask
    /\ send_waiters # <<>> /\ Head(send_waiters) = t
    /\ send_waiters' = Tail(send_waiters)
    /\ EnterSend(t)
    /\ UNCHANGED <<op, connvars, wirevars, faults, rolled, othervars>>

\* a task calls _ensureConnected itself
ensureConnected(t) ==
    /\ pc[t] = "idle"
    /\ op' = [op EXCEPT ![t] = "connect"]
    /\ EnsureFresh(t, "connect")
    /\ result' = [result EXCEPT ![t] = Outcome(pc'[t])]
    /\ UNCHANGED <<packet_buffer, connvars, send_lock, send_waiters, packets, idx,
                   wirevars, nflush, fid, faults, rolled, othervars>>

\* the first waiter for the connect lock is woken: the second check, then _connect
ResumeConnect(t) ==
    /\ pc[t] = "wait_connect"
    /\ connect_lock = NoTask
    /\ connect_waiters # <<>> /\ Head(connect_waiters) = t
    /\ connect_waiters' = Tail(connect_waiters)
    /\ IF IsConnected
       THEN /\ Continue(t, op[t])
            /\ UNCHANGED <<connect_lock, attempts>>
       ELSE /\ pc' = [pc EXCEPT ![t] = "connecting"]
            /\ connect_lock' = t
            /\ attempts' = [attempts EXCEPT ![t] = attempts[t] + 1]
            /\ UNCHANGED wclient
    /\ result' = [result EXCEPT ![t] = Outcome(pc'[t])]
    /\ UNCHANGED <<packet_buffer, connvars, send_lock, send_waiters, op, packets, idx,
                   wirevars, nflush, fid, faults, rolled, othervars>>

\* establish_connection returns a connected client; start_notify is awaited next
ConnectOk(t) ==
    /\ pc[t] = "connecting"
    /\ client' = client + 1
    /\ is_connected' = TRUE
    /\ subscribed' = FALSE
    /\ pc' = [pc EXCEPT ![t] = "subscribing"]
    /\ UNCHANGED <<packet_buffer, lockvars, op, packets, idx, wclient, result, wirevars,
                   nflush, fid, attempts, faults, rolled, othervars>>

\* faulty variant: a failed establish_connection is retried once inside the call
ConnectFailRetry(t) ==
    /\ pc[t] = "connecting"
    /\ faults < MaxFaults
    /\ IF attempts[t] = 1
       THEN /\ attempts' = [attempts EXCEPT ![t] = 2]
            /\ UNCHANGED <<packet_buffer, connvars, lockvars, pc, op, packets, idx, wclient,
                           result, fid, wirevars, nflush, faults, rolled, othervars>>
       ELSE /\ faults' = faults + 1
            /\ connect_lock' = NoTask
            /\ Raise(t, "connect_error")
            /\ UNCHANGED <<connvars, send_waiters, connect_waiters, op, wirevars, nflush,
                           othervars>>

\* establish_connection raises
ConnectFail(t) ==
    /\ pc[t] = "connecting"
    /\ faults < MaxFaults
    /\ faults' = faults + 1
    /\ connect_lock' = NoTask
    /\ Raise(t, "connect_error")
    /\ UNCHANGED <<connvars, send_waiters, connect_waiters, op, wirevars, nflush,
                   othervars>>

\* start_notify returns: _handleReceive is subscribed, _ensureConnected returns
SubscribeOk(t) ==
    /\ pc[t] = "subscribing"
    /\ IsConnected
    /\ subscribed' = TRUE
    /\ connect_lock' = NoTask
    /\ Continue(t, op[t])
    /\ result' = [result EXCEPT ![t] = Outcome(pc'[t])]
    /\ UNCHANGED <<packet_buffer, client, is_connected, send_lock, send_waiters,
                   connect_waiters, op, packets, idx, wirevars, nflush, fid, attempts,
                   faults, rolled, othervars>>

\* start_notify raises (always, on a link that has dropped)
SubscribeFail(t) ==
    /\ pc[t] = "subscribing"
    /\ ~IsConnected \/ faults < MaxFaults
    /\ faults' = IF IsConnected THEN faults + 1 ELSE faults
    /\ connect_lock' = NoTask
    /\ Raise(t, "notify_error")
    /\ UNCHANGED <<connvars, send_waiters, connect_waiters, op, wirevars, nflush,
                   othervars>>

WriteUp(t) == IsConnected /\ wclient[t] = client

\* _transmitPacket: generateFrame, then write_gatt_char returns
WriteOk(t) ==
    /\ pc[t] = "writing"
    /\ WriteUp(t)
    /\ written' = IF tracing THEN written \cup {packets[t][idx[t]].seq} ELSE written
    /\ wire_fid' = fid[t]
    /\ wire_power' = LET p == packets[t][idx[t]].pkt
                     IN  IF tracing /\ p.head = COMMAND /\ p.cmd = POWER
                         THEN Some(p.payload[1] = 1) ELSE wire_power
    /\ IF idx[t] < Len(packets[t])
       THEN /\ idx' = [idx EXCEPT ![t] = idx[t] + 1]
            /\ wclient' = [wclient EXCEPT ![t] = client]
            /\ UNCHANGED <<send_lock, pc, packets, result, fid, attempts>>
       ELSE /\ send_lock' = NoTask
            /\ pc' = [pc EXCEPT ![t] = "idle"]
            /\ result' = [result EXCEPT ![t] = "none"]
            /\ packets' = [packets EXCEPT ![t] = <<>>]
            /\ idx' = [idx EXCEPT ![t] = 0]
            /\ fid' = [fid EXCEPT ![t] = 0]
            /\ attempts' = [attempts EXCEPT ![t] = 0]
            /\ wclient' = [wclient EXCEPT ![t] = NoClient]
    /\ UNCHANGED <<packet_buffer, connvars, send_waiters, connect_lock, connect_waiters,
                   op, nflush, faults, rolled, othervars>>

\* write_gatt_char raises (always, on a link that has dropped)
WriteFail(t) ==
    /\ pc[t] = "writing"
    /\ ~WriteUp(t) \/ faults < MaxFaults
    /\ faults' = IF WriteUp(t) THEN faults + 1 ELSE faults
    /\ Raise(t, "write_error")
    /\ UNCHANGED <<connvars, send_waiters, connect_lock, connect_waiters, op,
                   wirevars, nflush, othervars>>

\* the task running the call is cancelled while it is suspended:
\* CancelledError is raised at its await; it is not an Exception, so the
\* except clause of sendPacketBuffer does not run and the batch, a local of
\* the call, goes with it; the async with blocks release the locks it
\* holds, and a waiter leaves the queue of its lock
Without(waiters, t) == SelectSeq(waiters, LAMBDA u : u # t)
Cancel(t) ==
    /\ pc[t] \in {"wait_send", "wait_connect", "connecting", "subscribing", "writing"}
    /\ faults < MaxFaults
    /\ faults' = faults + 1
    /\ pc' = [pc EXCEPT ![t] = "idle"]
    /\ result' = [result EXCEPT ![t] = "cancelled"]
    /\ attempts' = [attempts EXCEPT ![t] = 0]
    /\ send_lock' = IF send_lock = t THEN NoTask ELSE send_lock
    /\ connect_lock' = IF connect_lock = t THEN NoTask ELSE connect_lock
    /\ send_waiters' = Without(send_waiters, t)
    /\ connect_waiters' = Without(connect_waiters, t)
    /\ packets' = [packets EXCEPT ![t] = <<>>]
    /\ idx' = [idx EXCEPT ![t] = 0]
    /\ fid' = [fid EXCEPT ![t] = 0]
    /\ wclient' = [wclient EXCEPT ![t] = NoClient]
    /\ UNCHANGED <<packet_buffer, connvars, op, wirevars, nflush, rolled, othervars>>

(***************************************************************************)
(* Specifications.                                                         *)
(***************************************************************************)
\* the transmit path under concurrent flush callers
Next ==
    \/ requestStateBuffered
    \/ requestColorBuffered
    \/ \E t \in Tasks : sendPacketBuffer(t)
    \/ \E t \in Tasks : ResumeSend(t)
    \/ \E t \in Tasks : ConnectOk(t)
    \/ \E t \in Tasks : ConnectFail(t)
    \/ \E t \in Tasks : SubscribeOk(t)
    \/ \E t \in Tasks : SubscribeFail(t)
    \/ \E t \in Tasks : WriteOk(t)
    \/ \E t \in Tasks : WriteFail(t)
    \/ LinkDrop

Spec == Init /\ [][Next]_vars

\* the connection manager under callers that also call _ensureConnected
\* themselves, outside the send lock
NextConn ==
    \/ requestStateBuffered
    \/ \E t \in Tasks : sendPacketBuffer(t)
    \/ \E t \in Tasks : ResumeSend(t)
    \/ \E t \in Tasks : ensureConnected(t)
    \/ \E t \in Tasks : ResumeConnect(t)
    \/ \E t \in Tasks : ConnectOk(t)
    \/ \E t \in Tasks : ConnectFail(t)
    \/ \E t \in Tasks : SubscribeOk(t)
    \/ \E t \in Tasks : SubscribeFail(t)
    \/ \E t \in Tasks : WriteOk(t)
    \/ \E t \in Tasks : WriteFail(t)
    \/ LinkDrop

SpecConn == Init /\ [][NextConn]_vars

\* the engine under one sequential caller (it awaits each call before the
\* next): every setter and request, flushes whose writes may fail and, at any
\* time the link is up, the notifications of the device
Caller == {"t1"}
CallerIdle == \A t \in Caller : pc[t] = "idle"
NextDev ==
    \/ CallerIdle /\ requestStateBuffered
    \/ CallerIdle /\ requestBrightnessBuffered
    \/ CallerIdle /\ requestColorBuffered
    \/ CallerIdle /\ \E s \in BOOLEAN : setStateBuffered(s)
    \/ CallerIdle /\ \E v \in Brightnesses : setBrightnessBuffered(v, FALSE)
    \/ CallerIdle /\ \E rgb \in Colors, force \in BOOLEAN : setColorBuffered(rgb, force)
    \/ \E t \in Caller : sendPacketBuffer(t)
    \/ \E t \in Caller : ConnectOk(t)
    \/ \E t \in Caller : SubscribeOk(t)
    \/ \E t \in Caller : WriteOk(t)
    \/ \E t \in Caller : WriteFail(t)
    \/ \E f \in NotifFrames : Notify(f)

SpecDev == InitPlain /\ [][NextDev]_vars

\* the receive path: one caller brings the link up by flushing a request,
\* and the link delivers frames, intact or altered
NextRecv ==
    \/ CallerIdle /\ requestStateBuffered
    \/ \E t \in Caller : sendPacketBuffer(t)
    \/ \E t \in Caller : ConnectOk(t)
    \/ \E t \in Caller : SubscribeOk(t)
    \/ \E t \in Caller : WriteOk(t)
    \/ \E f \in RecvFrames : Notify(f)

SpecRecv == Init /\ [][NextRecv]_vars

\* power commands: one caller sets the power and flushes, writes may fail
\* and the device reports its state
NextPower ==
    \/ CallerIdle /\ \E s \in BOOLEAN : setStateBuffered(s)
    \/ \E t \in Caller : sendPacketBuffer(t)
    \/ \E t \in Caller : ConnectOk(t)
    \/ \E t \in Caller : SubscribeOk(t)
    \/ \E t \in Caller : WriteOk(t)
    \/ \E t \in Caller : WriteFail(t)
    \/ \E f \in NotifFrames : Notify(f)

SpecPower == Init /\ [][NextPower]_vars

\* tasks that keep flushing while requests are enqueued at any time,
\* over a transport whose calls always return and fail a bounded number of
\* times: each awaited call (establish_connection, start_notify,
\* write_gatt_char) eventually returns or raises, a waiter gets the send lock
\* once it is free, and a task calls
\* sendPacketBuffer again whenever it is idle
NextLive ==
    \/ requestStateBuffered
    \/ \E t \in Tasks : sendPacketBuffer(t)
    \/ \E t \in Tasks : ResumeSend(t)
    \/ \E t \in Tasks : ConnectOk(t)
    \/ \E t \in Tasks : ConnectFail(t)
    \/ \E t \in Tasks : SubscribeOk(t)
    \/ \E t \in Tasks : SubscribeFail(t)
    \/ \E t \in Tasks : WriteOk(t)
    \/ \E t \in Tasks : WriteFail(t)
    \/ LinkDrop

Fairness ==
    \A t \in Tasks :
        /\ WF_vars(sendPacketBuffer(t))
        /\ WF_vars(ResumeSend(t))
        /\ WF_vars(ConnectOk(t) \/ ConnectFail(t))
        /\ WF_vars(SubscribeOk(t) \/ SubscribeFail(t))
        /\ WF_vars(WriteOk(t) \/ WriteFail(t))

SpecLive == Init /\ [][NextLive]_vars /\ Fairness

\* the transmit path when the calling task may also be cancelled
NextCancel ==
    \/ Next
    \/ \E t \in Tasks : Cancel(t)

SpecCancel == Init /\ [][NextCancel]_vars

(***************************************************************************)
(* The encoder and the brightness scaling on their own: one call of        *)
(* generateFrame, or of the brightness conversion that                     *)
(* setBrightnessBuffered applies followed by the one _handleRequest        *)
(* applies to the BRIGHTNESS response, on a freshly constructed engine.    *)
(***************************************************************************)
Call(kind, packet, value) == [kind |-> kind, packet |-> packet, value |-> value]
Returned(value) == Some([error |-> "none", value |-> value])

\* payloads of every length up to MaxPayloadLen: constant fills (values
\* outside 0..255 included, generateFrame clamps them) and a ramp
Fills == {0, 1, 255, 300, 0 - 5}
Payloads ==
    UNION { {[i \in 1..n |-> v] : v \in Fills} \cup {[i \in 1..n |-> (i * 37) % 256]}
            : n \in 0..MaxPayloadLen }
EncodeCalls ==
    { Call("generateFrame", LedPacket(head, cmd, payload), 0) :
        head \in {COMMAND, REQUEST}, cmd \in {POWER, BRIGHTNESS, COLOR, SEGMENT, 421},
        payload \in Payloads }

ScaleCalls == { Call("brightness", LedPacket(0, 0, <<>>), v) : v \in 0..MaxBrightness }

InitCodec ==
    /\ Constructed(TRUE)
    /\ arg \in EncodeCalls \cup ScaleCalls
    /\ ret = None

\* the native value setBrightnessBuffered puts in the BRIGHTNESS command
brightness_to_device(value) ==
    setBrightness([buf |-> <<>>, seq |-> 1], Some(value), TRUE).buf[1].pkt.payload[1]
\* the brightness _handleRequest stores for a BRIGHTNESS response
device_to_brightness(reported) == handleRequest(BRIGHTNESS, <<reported>>)[2][1]

Return(value) ==
    /\ ret = None
    /\ ret' = Returned(value)
    /\ UNCHANGED <<devvars, segmented, packet_buffer, connvars, lockvars, taskvars,
                   wirevars, nextSeq, nflush, cbvars, prevColorCall, lastPowerCall, rolled,
                   tracing,
                   nops, faults, nrecv, arg>>

GenerateFrameCall == arg.kind = "generateFrame" /\ Return(generateFrame(arg.packet))
BrightnessRoundTrip ==
    arg.kind = "brightness" /\ Return(device_to_brightness(brightness_to_device(arg.value)))

NextCodec ==
    \/ GenerateFrameCall
    \/ BrightnessRoundTrip

SpecCodec == InitCodec /\ [][NextCodec]_vars


(***************************************************************************)
(* Properties of the transmit path.                                        *)
(***************************************************************************)
Seqs(s) == {s[i].seq : i \in 1..Len(s)}

\* a flush is in flight from its drain to its return or exception
InFlight(t) == op[t] = "flush" /\ packets[t] # <<>>

\* C1: when a write fails after N < M copies of the drained batch were sent
\* and the exception leaves sendPacketBuffer, the buffer is the whole batch in
\* its order followed by every copy enqueued since the drain, in enqueue order
\* (the copies numbered from the batch's first up to the last one enqueued).
C1_RollbackKeepsEveryFrame ==
    [][\A t \in Tasks :
        (pc[t] = "writing" /\ pc'[t] = "idle" /\ result'[t] = "write_error")
        => LET B == packet_buffer'
               M == Len(packets[t])
           IN  /\ idx[t] - 1 < M
               /\ Len(B) = M + (nextSeq - 1 - packets[t][M].seq)
               /\ SubSeq(B, 1, M) = packets[t]
               /\ \A i \in 1..Len(B) : B[i].seq = packets[t][1].seq + i - 1]_vars

\* a write failed after at least one copy was sent, and the buffer again
\* starts with that copy and ends with copies enqueued during the flush
C1_Witness ==
    \E t \in Tasks :
        /\ result[t] = "write_error" /\ pc[t] = "idle"
        /\ rolled > 0
        /\ Len(packet_buffer) > rolled
        /\ Head(packet_buffer).seq \in written
        /\ packet_buffer[Len(packet_buffer)].seq = nextSeq - 1

\* C2: copies reach the transport in enqueue order: whenever a copy has been
\* written, every copy enqueued before it has been written too, whatever
\* flushes, failures and rollbacks came in between.
C2_WritesInEnqueueOrder ==
    \A k \in written : \A j \in 1..k : j \in written

\* after a rollback with copies enqueued during the failed flush, a later
\* flush has written everything
C2_Witness ==
    /\ rolled > 0
    /\ nflush >= 2
    /\ nextSeq > 1
    /\ written = 1..(nextSeq - 1)
    /\ \A t \in Tasks : pc[t] = "idle"

\* C3: at most one flush is between its drain and its last write, and while a
\* flush is part-way through its batch the latest write on the transport is
\* its own.
C3_OneFlushAtATime ==
    /\ Cardinality({t \in Tasks : InFlight(t)}) <= 1
    /\ \A t \in Tasks : (pc[t] = "writing" /\ idx[t] > 1) => wire_fid = fid[t]

\* one caller is part-way through its batch while another waits for the send
\* lock with work in the buffer
C3_Witness ==
    \E t, u \in Tasks :
        /\ pc[t] = "writing" /\ idx[t] > 1
        /\ pc[u] = "wait_send"
        /\ packet_buffer # <<>>

\* C8: when establish_connection fails in a flush, that call made exactly one
\* attempt, wrote nothing, raises the error, leaves the link disconnected and
\* no attempt in progress, and has put its batch back at the head of the
\* buffer; an attempt only ever starts in a step that is a call of
\* sendPacketBuffer (or its resumption after the wait for the send lock).
C8_ConnectFailureNotRetried ==
    [][/\ \A t \in Tasks :
            (op[t] = "flush" /\ pc[t] = "connecting" /\ pc'[t] = "idle")
            => /\ result'[t] = "connect_error"
               /\ attempts[t] = 1
               /\ wire_fid # fid[t] /\ written' = written
               /\ ~IsConnected'
               /\ packets[t] # <<>>
               /\ SubSeq(packet_buffer', 1, Len(packets[t])) = packets[t]
               /\ \A u \in Tasks : pc'[u] \notin {"connecting", "subscribing"}
       /\ \A t \in Tasks :
            (pc[t] # "connecting" /\ pc'[t] = "connecting")
            => pc[t] \in {"idle", "wait_send"}]_vars

\* a flush has raised the connection error: nothing was written, the link is
\* down, the batch is back in the buffer and the send lock is free
C8_Witness ==
    \E t \in Tasks :
        /\ result[t] = "connect_error" /\ pc[t] = "idle"
        /\ ~IsConnected
        /\ written = {}
        /\ packet_buffer # <<>> /\ Head(packet_buffer).seq = 1
        /\ send_lock = NoTask

\* the copies of one _preparePacket call lie together, in order, in c
Whole(c) ==
    \A i \in 1..Len(c) :
        \A k \in 0..(DefaultRepeat - 1) :
            LET j == i - (c[i].seq - c[i].eid) + k
            IN  j \in 1..Len(c) /\ c[j].eid = c[i].eid /\ c[j].seq = c[i].eid + k

\* C9: every copy enqueued is, exactly once, in the buffer or in the batch of
\* a flush in flight, unless it has been written; the DefaultRepeat copies of a
\* call are contiguous and never split between buffer and batch; new copies
\* are at the tail of the buffer.
C9_EnqueueAtomic ==
    /\ \A k \in 1..(nextSeq - 1) :
          \/ k \in written
          \/ k \in Seqs(packet_buffer)
          \/ \E t \in Tasks : k \in Seqs(packets[t])
    /\ Cardinality(Seqs(packet_buffer)) = Len(packet_buffer)
    /\ \A t \in Tasks :
          /\ Cardinality(Seqs(packets[t])) = Len(packets[t])
          /\ Seqs(packets[t]) \cap Seqs(packet_buffer) = {}
          /\ \A u \in Tasks \ {t} : Seqs(packets[t]) \cap Seqs(packets[u]) = {}
          /\ Whole(packets[t])
    /\ Whole(packet_buffer)
    /\ \A i, j \in 1..Len(packet_buffer) :
          i < j => packet_buffer[i].seq < packet_buffer[j].seq
    /\ packet_buffer # <<>> => packet_buffer[Len(packet_buffer)].seq = nextSeq - 1

\* a call enqueued its copies while a flush was writing its batch
C9_Witness ==
    \E t \in Tasks :
        /\ pc[t] = "writing" /\ idx[t] > 1
        /\ Len(packets[t]) >= DefaultRepeat
        /\ Len(packet_buffer) >= DefaultRepeat


(***************************************************************************)
(* Properties of the connection manager.                                   *)
(***************************************************************************)
Attempting(t) == pc[t] \in {"connecting", "subscribing"}

\* C4: at most one connection attempt (_connect) is in flight; a caller that
\* had to wait for the connect lock starts an attempt of its own only if the
\* link is still down when it gets the lock, and otherwise returns without one.
C4_SingleFlightConnect ==
    /\ [](Cardinality({t \in Tasks : Attempting(t)}) <= 1)
    /\ [][\A t \in Tasks :
            (pc[t] = "wait_connect" /\ pc'[t] # "wait_connect")
            => IF IsConnected
               THEN /\ ~Attempting(t)'
                    /\ attempts'[t] = attempts[t]
                    /\ client' = client
               ELSE pc'[t] = "connecting"]_vars

\* the first caller's attempt has connected and is subscribing while a second
\* caller waits for the connect lock
C4_Witness ==
    \E t, u \in Tasks :
        /\ op[t] = "connect" /\ pc[t] = "subscribing" /\ IsConnected
        /\ pc[u] = "wait_connect" /\ attempts[u] = 0


\* C6: a failed flush loses no frame (every copy enqueued so far is written,
\* in the buffer or in the batch of the flush in flight), and when flush
\* keeps being called and the transport fails only finitely often, every
\* copy that was enqueued is eventually written: again and again, all the
\* copies enqueued so far have been written.
Enqueued == 1..(nextSeq - 1)
Held == Seqs(packet_buffer) \cup UNION {Seqs(packets[t]) : t \in Tasks}
AllWritten == Enqueued \subseteq written
C6_EventualDelivery ==
    /\ [](Enqueued \subseteq written \cup Held)
    /\ []<>AllWritten

\* every copy is written although a flush failed after more copies had been
\* enqueued behind its batch
C6_Witness == AllWritten /\ nextSeq > 1 /\ rolled > 0


\* C16, as stated: however a flush is aborted after its drain, by a
\* transport error or by cancellation of the calling task while it is
\* suspended in connect or in a write, every copy enqueued so far is in the
\* buffer, in the batch of the flush in progress, or has been written.
C16_NoFrameLostOnAbort ==
    \A k \in Enqueued : k \in written \/ k \in Held


\* C17, as stated: whenever _ensureConnected returns into a flush, through
\* a fresh attempt or through its already-connected path, the notification
\* handler is subscribed on the live connection.
C17_ConnectedImpliesSubscribed ==
    [][\A t \in Tasks :
          (pc[t] # "writing" /\ pc'[t] = "writing") => (IsConnected' /\ subscribed')]_vars


(***************************************************************************)
(* Properties of the setters' gates and of the reconciler.                 *)
(***************************************************************************)
Unknown == <<None, None, None>>
Reconciled(f) == Verified[f] /\ f[1] = REQUEST

\* C5, as stated: a second set_color(r,g,b) with the same arguments, force
\* not set and no change of the cached DeviceState since the first, leaves the
\* buffer unchanged, whatever the cached color is (unknown included).
C5_SecondCallEnqueuesNothing ==
    [][\A rgb \in Colors :
          (prevColorCall = <<rgb, FALSE>> /\ setColorBuffered(rgb, FALSE))
              => packet_buffer' = packet_buffer]_vars

\* C5, amended: set_color(r,g,b) leaves the buffer unchanged exactly when
\* force is not set and the cached color equals (r,g,b); in every other case
\* (cached color unknown or different, or force set) it appends frames, the
\* second of two identical calls like the first; it never changes the
\* cached DeviceState.
C5_SetColorGatedOnCachedColor ==
    [][\A rgb \in Colors, force \in BOOLEAN :
          setColorBuffered(rgb, force)
              => /\ DeviceState' = DeviceState
                 /\ (packet_buffer' = packet_buffer) <=> (~force /\ color = Some(rgb))
                 /\ Len(packet_buffer') >= Len(packet_buffer)
                 /\ SubSeq(packet_buffer', 1, Len(packet_buffer)) = packet_buffer]_vars

\* two identical unforced calls with the color still unknown: both enqueued
C5_Witness ==
    /\ \E rgb \in Colors : prevColorCall = <<rgb, FALSE>>
    /\ color = None
    /\ nops = 2
    /\ Len(packet_buffer) >= 6 * DefaultRepeat

\* C7: power, brightness and color start unknown; a field changes only in a
\* step that delivers a notification with a valid checksum and the REQUEST
\* head for the matching command (POWER: power, BRIGHTNESS: brightness,
\* COLOR or SEGMENT: color), and that step leaves the other two fields
\* unchanged; every other step (setters, requests, flush steps whether they
\* succeed or fail, notifications with a bad checksum or the COMMAND head)
\* leaves all three unchanged.
C7_StateOnlyThroughReconciliation ==
    /\ DeviceState = Unknown
    /\ [][
          /\ state' # state =>
                /\ \E f \in NotifFrames : Notify(f) /\ Reconciled(f) /\ f[2] = POWER
                /\ brightness' = brightness /\ color' = color
          /\ brightness' # brightness =>
                /\ \E f \in NotifFrames : Notify(f) /\ Reconciled(f) /\ f[2] = BRIGHTNESS
                /\ state' = state /\ color' = color
          /\ color' # color =>
                /\ \E f \in NotifFrames :
                        Notify(f) /\ Reconciled(f) /\ f[2] \in {COLOR, SEGMENT}
                /\ state' = state /\ brightness' = brightness
          /\ \A f \in NotifFrames :
                ((Notify(f) /\ ~Reconciled(f)) => DeviceState' = DeviceState)
       ]_vars

\* a response has set the color after a flush failed and the caller enqueued
\* again, the other two fields still unknown
C7_Witness ==
    /\ color # None /\ state = None /\ brightness = None
    /\ result["t1"] = "write_error"
    /\ packet_buffer # <<>>

\* C10: a notification with a valid checksum and the REQUEST head invokes
\* the update callback exactly once, and the callback sees the DeviceState
\* the frame has produced (a POWER response whose first payload byte is 1
\* has made power true); a notification with a bad checksum or with the
\* COMMAND head does not invoke it.
C10_CallbackOncePerReconciledFrame ==
    [][\A f \in NotifFrames :
          Notify(f) =>
              (IF Reconciled(f)
               THEN /\ callbacks' = callbacks + 1
                    /\ cb_seen' = DeviceState'
                    /\ ((f[2] = POWER /\ f[3] = 1) => state' = Some(TRUE))
               ELSE callbacks' = callbacks /\ cb_seen' = cb_seen)]_vars

\* the callback has run once, for a POWER response that made power true
C10_Witness ==
    /\ callbacks = 1 /\ nrecv = 1
    /\ state = Some(TRUE) /\ cb_seen = <<Some(TRUE), None, None>>


(***************************************************************************)
(* Properties of the codec and of the brightness scaling.                  *)
(***************************************************************************)
\* the XOR of the bytes of s, bit by bit: bit k is the parity of the number
\* of bytes of s that have bit k set
Pow2(k) == IF k = 0 THEN 1 ELSE IF k = 1 THEN 2 ELSE IF k = 2 THEN 4 ELSE IF k = 3 THEN 8
           ELSE IF k = 4 THEN 16 ELSE IF k = 5 THEN 32 ELSE IF k = 6 THEN 64 ELSE 128
BitOf(b, k) == (b \div Pow2(k)) % 2
ParityBit(s, k) == Cardinality({i \in 1..Len(s) : BitOf(s[i], k) = 1}) % 2
XorOfAll(s) ==
    ParityBit(s, 0) + 2 * ParityBit(s, 1) + 4 * ParityBit(s, 2) + 8 * ParityBit(s, 3)
        + 16 * ParityBit(s, 4) + 32 * ParityBit(s, 5) + 64 * ParityBit(s, 6)
        + 128 * ParityBit(s, 7)
Front(s) == SubSeq(s, 1, Len(s) - 1)
Last(s) == s[Len(s)]

\* C11, as stated: generateFrame returns exactly 20 bytes, the last one the
\* XOR of the first 19, when the payload has at most 17 bytes, and fails with
\* EncodeError when the payload is longer.
C11_FrameLengthOnEncode ==
    (arg.kind = "generateFrame" /\ ret # None) =>
        IF Len(arg.packet.payload) <= FrameDataLen - 2
        THEN /\ ret[1].error = "none"
             /\ Len(ret[1].value) = FrameDataLen + 1
             /\ Last(ret[1].value) = XorOfAll(Front(ret[1].value))
        ELSE ret[1].error = "EncodeError"

\* whether the last byte of a frame differs from the XOR of the others
ChecksumDiffers == [f \in RecvFrames |-> Last(f) # XorOfAll(Front(f))]

\* C12: a received frame is rejected with the checksum error exactly when
\* its last byte differs from the XOR of the bytes before it; a rejected
\* frame changes nothing: no field of DeviceState, no callback, and the
\* connection and its subscription stay as they were.  (Each step either
\* satisfies this for the frame f or is not the delivery of f.)
C12_RejectedIffChecksumDiffers ==
    [][\A f \in RecvFrames :
          \/ /\ (rejected' = rejected + 1) <=> ChecksumDiffers[f]
             /\ rejected' \in {rejected, rejected + 1}
             /\ (rejected' = rejected + 1) =>
                   UNCHANGED <<devvars, callbacks, cb_seen, connvars, packet_buffer,
                               lockvars, taskvars>>
          \/ ~Notify(f)]_vars

\* a frame has been rejected and the link is still up and subscribed
C12_Witness == rejected = 1 /\ IsConnected /\ subscribed /\ callbacks = 0

\* C13: for every host brightness v in 0..255, on a segmented and on a
\* legacy device, the native value setBrightnessBuffered sends for v,
\* converted back as _handleRequest converts a BRIGHTNESS response, differs
\* from v by at most 1.
C13_BrightnessRoundTrip ==
    (arg.kind = "brightness" /\ ret # None) =>
        /\ ret[1].value - arg.value <= 1
        /\ arg.value - ret[1].value <= 1
        /\ brightness_to_device(arg.value) \in 0..DeviceMax(segmented)

\* legacy device, v = 127: sent as 127 of 254, read back as 128 (127.5
\* rounded to even)
C13_Witness ==
    /\ arg.kind = "brightness" /\ arg.value = 127 /\ ~segmented
    /\ ret = Returned(128)


(***************************************************************************)
(* The setters' frames.                                                    *)
(***************************************************************************)
Pkts(buf) == [i \in 1..Len(buf) |-> buf[i].pkt]
Copies(packet, n) == [i \in 1..n |-> packet]

\* C14, as stated: on a legacy device with brightness unknown and an empty
\* buffer, set_brightness(128) leaves 3 copies of COMMAND(BRIGHTNESS, [128])
\* followed by 3 copies of REQUEST(BRIGHTNESS).
C14_LegacyBrightnessPayload128 ==
    [][(/\ ~segmented /\ brightness = None /\ packet_buffer = <<>>
        /\ setBrightnessBuffered(Some(128), FALSE))
       => Pkts(packet_buffer') =
            Copies(LedPacket(COMMAND, BRIGHTNESS, <<128>>), 3)
                \o Copies(LedPacket(REQUEST, BRIGHTNESS, <<>>), 3)]_vars

\* C14, amended: the same call leaves exactly 6 frames, 3 copies of
\* COMMAND(BRIGHTNESS, [127]) followed by 3 copies of REQUEST(BRIGHTNESS):
\* the native value is round(128 / 255 * 254) = 127.
C14_LegacyBrightnessPayload127 ==
    [][(/\ ~segmented /\ brightness = None /\ packet_buffer = <<>>
        /\ setBrightnessBuffered(Some(128), FALSE))
       => /\ Len(packet_buffer') = 6
          /\ Pkts(packet_buffer') =
                Copies(LedPacket(COMMAND, BRIGHTNESS, <<127>>), 3)
                    \o Copies(LedPacket(REQUEST, BRIGHTNESS, <<>>), 3)]_vars

\* the buffer of a legacy device right after set_brightness(128), its first call
C14_Witness ==
    /\ ~segmented /\ brightness = None /\ nops = 1
    /\ Len(packet_buffer) = 6
    /\ packet_buffer[1].pkt = LedPacket(COMMAND, BRIGHTNESS, <<127>>)
    /\ packet_buffer[6].pkt = LedPacket(REQUEST, BRIGHTNESS, <<>>)

SegmentsPayload(rgb) ==
    <<SEGMENTS, 1, rgb[1], rgb[2], rgb[3], 255, 255, 255, 255, 255, 255, 255>>
Red == <<255, 0, 0>>

\* C15, as stated: on a segmented device with an empty buffer and cached
\* color other than (255,0,0), set_color(255,0,0) leaves 4 frames: the
\* SEGMENTS, SINGLE and LEGACY color commands, then REQUEST(SEGMENT, [1]).
C15_SegmentedColorFourFrames ==
    [][\A force \in BOOLEAN :
          (/\ segmented /\ color # Some(Red) /\ packet_buffer = <<>>
           /\ setColorBuffered(Red, force))
          => Pkts(packet_buffer') =
                << LedPacket(COMMAND, COLOR, SegmentsPayload(Red)),
                   LedPacket(COMMAND, COLOR, <<SINGLE, 255, 0, 0>>),
                   LedPacket(COMMAND, COLOR, <<LEGACY, 255, 0, 0>>),
                   LedPacket(REQUEST, SEGMENT, <<1>>) >>]_vars

\* C15, amended: the same call leaves 12 frames: 3 copies of each of the
\* SEGMENTS, SINGLE and LEGACY color commands, in this order, then 3 copies
\* of REQUEST(SEGMENT, [1]).
C15_SegmentedColorTwelveFrames ==
    [][\A force \in BOOLEAN :
          (/\ segmented /\ color # Some(Red) /\ packet_buffer = <<>>
           /\ setColorBuffered(Red, force))
          => /\ Len(packet_buffer') = 12
             /\ Pkts(packet_buffer') =
                    Copies(LedPacket(COMMAND, COLOR, SegmentsPayload(Red)), 3)
                        \o Copies(LedPacket(COMMAND, COLOR, <<SINGLE, 255, 0, 0>>), 3)
                        \o Copies(LedPacket(COMMAND, COLOR, <<LEGACY, 255, 0, 0>>), 3)
                        \o Copies(LedPacket(REQUEST, SEGMENT, <<1>>), 3)]_vars

\* the buffer of a segmented device right after set_color(255,0,0), called
\* with a different color cached
C15_Witness ==
    /\ segmented /\ color = Some(<<0, 0, 255>>)
    /\ prevColorCall = <<Red, FALSE>>
    /\ Len(packet_buffer) = 12
    /\ packet_buffer[1].pkt.payload = SegmentsPayload(Red)
    /\ packet_buffer[12].pkt = LedPacket(REQUEST, SEGMENT, <<1>>)

\* C18, as stated: when a flush that wrote its batch returns successfully
\* with nothing left in the buffer, and set_power was called since the last
\* notification, the last POWER command written carries the value of the
\* most recent of those calls.
C18_LastPowerWins ==
    [][\A t \in Tasks :
          (/\ pc[t] = "writing" /\ pc'[t] = "idle" /\ result'[t] = "none"
           /\ packet_buffer' = <<>>
           /\ lastPowerCall' # None)
          => wire_power' = lastPowerCall']_vars


(***************************************************************************)
(* Properties of the connection's life and of the locks.                   *)
(***************************************************************************)
\* C19: a flush that returns successfully leaves the client, its connection
\* state and its subscription as they are; a flush that finds the link up
\* goes straight to its writes; a connection attempt starts only when there
\* is no client or the client reports the link down; and a new client or a
\* new subscription only ever comes out of such an attempt.
C19_ConnectionReuse ==
    [][/\ \A t \in Tasks :
            (pc[t] = "writing" /\ pc'[t] = "idle" /\ result'[t] = "none")
                => UNCHANGED connvars
       /\ \A t \in Tasks :
            (/\ pc[t] \in {"idle", "wait_send"} /\ pc'[t] \notin {"idle", "wait_send"}
             /\ client # NoClient /\ is_connected)
                => (pc'[t] = "writing" /\ attempts'[t] = 0 /\ UNCHANGED connvars)
       /\ \A t \in Tasks :
            (pc[t] # "connecting" /\ pc'[t] = "connecting")
                => (client = NoClient \/ ~is_connected)
       /\ (client' # client \/ (subscribed' /\ ~subscribed))
                => \E t \in Tasks : pc[t] \in {"connecting", "subscribing"}]_vars

\* a second flush is writing on the client the first one connected, without
\* an attempt of its own
C19_Witness ==
    \E t \in Tasks :
        /\ pc[t] = "writing" /\ idx[t] > 1 /\ attempts[t] = 0
        /\ nflush = 2 /\ wire_fid = 2
        /\ client = 1 /\ is_connected /\ subscribed /\ faults = 0

\* C20: the locks are nested only as send -> buffer and send -> connect: the
\* buffer lock is free whenever a call is suspended, the connect lock is
\* held by a flush only inside its send lock, and a call that has returned
\* or raised holds no lock; only waiting calls are in a lock's queue.  Hence
\* no call is blocked forever: every call eventually returns or raises,
\* also when an earlier flush has failed.
Holds(t) == send_lock = t \/ connect_lock = t \/ buffer_lock = t
InQueue(t, waiters) == \E i \in 1..Len(waiters) : waiters[i] = t
LockDiscipline ==
    /\ buffer_lock = NoTask
    /\ \A t \in Tasks :
        /\ pc[t] = "idle" => ~Holds(t)
        /\ send_lock = t =>
                /\ op[t] = "flush"
                /\ pc[t] \in {"wait_connect", "connecting", "subscribing", "writing"}
        /\ connect_lock = t => pc[t] \in {"connecting", "subscribing"}
        /\ (connect_lock = t /\ op[t] = "flush") => send_lock = t
        /\ InQueue(t, send_waiters) <=> pc[t] = "wait_send"
        /\ InQueue(t, connect_waiters) <=> pc[t] = "wait_connect"
        /\ pc[t] = "wait_send" => send_lock # t
C20_DeadlockFreedom ==
    /\ []LockDiscipline
    /\ \A t \in Tasks : (pc[t] # "idle") ~> (pc[t] = "idle")

\* a flush has failed and returned, and the call that waited behind it for
\* the send lock now holds it and writes
C20_Witness ==
    \E t, u \in Tasks :
        /\ pc[t] = "idle" /\ result[t] = "write_error"
        /\ send_lock = u /\ pc[u] = "writing" /\ idx[u] > 1
        /\ rolled > 0

====
